---- MODULE Spec2Model ----
(***************************************************************************)
(* Lexorank keys (src/src/core/lexorank.ts) and the matrix insertion       *)
(* engine (insertElement, createMatrix) of hila.                           *)
(*                                                                         *)
(* A key is a sequence of bytes 0..255.  A Uint8Array is modelled as a     *)
(* TLA+ sequence; JavaScript's 0-based index i is position i+1.            *)
(***************************************************************************)
EXTENDS Integers, Sequences, FiniteSets, TLC

VARIABLES
    ka,          \* first argument handed to between
    kb,          \* second argument handed to between
    kres,        \* outcome of the last between call (NoCall before the first)
    iter,        \* number of repeated insertions made so far
    op,          \* the codec functions called so far ("none" before the first)
    segs,        \* the segment list handed to makeKey
    segsOut,     \* the segment list returned by parseKey
    cmp,         \* the number returned by compareKeys
    bytesOut,    \* the bytes returned by bytesFromSegment
    matrix,      \* table matrix: the ids of the created matrixes
    ordering,    \* table ordering: rows (key, matrix_id, element_kind, element_id)
    closure,     \* tables mx_<id>_closure: matrix id -> rows (ancestor_key, descendant_key, depth)
    pc,          \* position inside insertElement ("idle" between calls)
    call,        \* params of the insertElement call in progress
    orderingKey, \* insertElement's local orderingKey
    error,       \* the error thrown inside the try block, "none" if none
    snapshot,    \* the tables as of BEGIN TRANSACTION, restored by ROLLBACK
    txn,         \* transaction statements issued by the call in progress or just ended
    returned,    \* what the last insertElement call returned or threw
    calls,       \* number of insertElement calls begun
    outline,     \* history: matrix id -> the rows in the order the calls asked for, with their level
    subscribed,      \* query subject: the subscriptions that are open
    refCount,        \* shareReplay's count of its subscribers
    connected,       \* whether shareReplay is subscribed to source$
    subscriberCount, \* createQuerySubject's local subscriberCount
    cleanup,         \* createQuerySubject's local cleanup: "null" or "fn"
    setupCalls,      \* number of calls of setup so far
    cleanupCalls     \* number of calls of a cleanup function so far

codecvars == <<op, segs, segsOut, cmp, bytesOut>>
keyvars == <<ka, kb, kres, iter, codecvars>>
dbvars == <<matrix, ordering, closure>>
callvars == <<pc, call, orderingKey, error, snapshot, txn, returned, calls>>
histvars == <<outline>>
subjectvars == <<subscribed, refCount, connected, subscriberCount, cleanup,
                 setupCalls, cleanupCalls>>
vars == <<keyvars, dbvars, callvars, histvars, subjectvars>>

----------------------------------------------------------------------------
(* Bounds of the model *)

MaxKeyLen == 4          \* longest key (in bytes) drawn as an argument of between
MaxIter == 20           \* repeated insertions between fixed neighbours
MaxMatrixes == 2        \* matrixes created
MaxCalls == 5           \* insertElement calls made
MaxFirstChildCalls == 10 \* calls made when only first children are inserted
MaxLiveCalls == 4       \* calls made where termination is checked
MaxRunCalls == 10       \* calls made when rows are added at the end of a root-level run
MaxSeqLen == 4          \* longest byte sequence handed to the codec functions
MaxSegLen == 2          \* longest segment handed to makeKey
MaxSegs == 2            \* most segments handed to makeKey
MaxSubscribers == 4     \* subscribers of one query subject
MaxSetups == 8          \* times the query subject is set up

(* Byte values the arguments are built from: both ends of the byte range,  *)
(* an adjacent pair, and the midpoint.                                      *)
TestBytes == {1, 2, 128, 255}

(* Byte values the codec functions are called on: the terminator, the byte  *)
(* nextPrefix writes, and one ordinary byte.                                *)
CodecBytes == {0, 1, 128}

----------------------------------------------------------------------------
(* Uint8Array helpers *)

Min(x, y) == IF x < y THEN x ELSE y

\* new Uint8Array(n): n zero bytes
Zeros(n) == [i \in 1..n |-> 0]

\* arr.slice(from, to): bytes from..to-1 (0-based), `to` clamped to the length
Slice(arr, from, to) == SubSeq(arr, from + 1, Min(to, Len(arr)))

\* result.set(src): copy src to the front of result
SetFront(result, src) ==
    [i \in 1..Len(result) |-> IF i <= Len(src) THEN src[i] ELSE result[i]]

\* result[idx] = v on a Uint8Array: an index past the end is silently ignored,
\* a stored value is truncated to 8 bits
SetByte(result, idx, v) ==
    IF idx >= 0 /\ idx < Len(result)
    THEN [result EXCEPT ![idx + 1] = v % 256]
    ELSE result

\* Outcomes of an operation that may throw
Ok(k) == [err |-> "none", key |-> k]
Err(e) == [err |-> e, key |-> <<>>]
NoCall == [err |-> "nocall", key |-> <<>>]

----------------------------------------------------------------------------
(* Key codec *)

\* a comparison that looks at the lengths before the bytes
RECURSIVE compareFrom_LengthFirst(_, _, _)
compareFrom_LengthFirst(a, b, i) ==
    IF Len(a) < Len(b) THEN -1
    ELSE IF Len(a) > Len(b) THEN 1
    ELSE IF i >= Len(a) THEN 0
    ELSE IF a[i + 1] < b[i + 1] THEN -1
    ELSE IF a[i + 1] > b[i + 1] THEN 1
    ELSE compareFrom_LengthFirst(a, b, i + 1)

\* compareKeys(a, b): index of the first differing byte, scanned upwards
RECURSIVE compareFrom(_, _, _)
compareFrom(a, b, i) ==
    IF i >= Min(Len(a), Len(b))
    THEN (IF Len(a) < Len(b) THEN -1 ELSE IF Len(a) > Len(b) THEN 1 ELSE 0)
    ELSE IF a[i + 1] < b[i + 1] THEN -1
    ELSE IF a[i + 1] > b[i + 1] THEN 1
    ELSE compareFrom(a, b, i + 1)

compareKeys(a, b) == compareFrom(a, b, 0)

\* a parse that starts the next segment at the terminator, not after it
RECURSIVE parseFrom_KeepsTerminator(_, _, _, _)
parseFrom_KeepsTerminator(key, i, start, segments) ==
    IF i >= Len(key) THEN segments
    ELSE IF key[i + 1] = 0
         THEN parseFrom_KeepsTerminator(key, i + 1, i,
                        IF i > start THEN Append(segments, Slice(key, start, i))
                        ELSE segments)
         ELSE parseFrom_KeepsTerminator(key, i + 1, start, segments)

\* parseKey(key): split on 0x00, skipping empty segments
RECURSIVE parseFrom(_, _, _, _)
parseFrom(key, i, start, segments) ==
    IF i >= Len(key) THEN segments
    ELSE IF key[i + 1] = 0
         THEN parseFrom(key, i + 1, i + 1,
                        IF i > start THEN Append(segments, Slice(key, start, i))
                        ELSE segments)
         ELSE parseFrom(key, i + 1, start, segments)

parseKey(key) == parseFrom(key, 0, 0, <<>>)

\* makeKey(segments): each segment followed by one 0x00; throws on a 0x00 byte
RECURSIVE concatSegments(_)
concatSegments(segments) ==
    IF segments = <<>> THEN <<>>
    ELSE Head(segments) \o <<0>> \o concatSegments(Tail(segments))

\* makeKey without the validation loop
makeKey_NoValidation(segments) == Ok(concatSegments(segments))

makeKey(segments) ==
    IF \E s \in 1..Len(segments) : \E i \in 1..Len(segments[s]) : segments[s][i] = 0
    THEN Err("InvalidSegment")
    ELSE Ok(concatSegments(segments))

\* nextPrefix that raises the last byte of the final segment instead of the
\* terminator
nextPrefix_NextSegment(prefix) ==
    IF Len(prefix) = 0 THEN Err("EmptyKey")
    ELSE IF prefix[Len(prefix)] # 0 THEN Err("NoTerminator")
    ELSE IF Len(prefix) < 2 THEN Ok(<<1>>)
    ELSE Ok([prefix EXCEPT ![Len(prefix) - 1] = (@ + 1) % 256])

\* nextPrefix(prefix): the final 0x00 replaced by 0x01
nextPrefix(prefix) ==
    IF Len(prefix) = 0 THEN Err("EmptyKey")
    ELSE IF prefix[Len(prefix)] # 0 THEN Err("NoTerminator")
    ELSE Ok([prefix EXCEPT ![Len(prefix)] = 1])

\* segmentFromBytes(bytes): 0x00 is written as 0x01 0x01, other bytes as they are
RECURSIVE nullCountFrom(_, _)
nullCountFrom(bytes, i) ==
    IF i >= Len(bytes) THEN 0
    ELSE (IF bytes[i + 1] = 0 THEN 1 ELSE 0) + nullCountFrom(bytes, i + 1)

RECURSIVE encodeFrom(_, _, _, _)
encodeFrom(bytes, i, writePos, result) ==
    IF i >= Len(bytes) THEN result
    ELSE IF bytes[i + 1] = 0
         THEN encodeFrom(bytes, i + 1, writePos + 2,
                         SetByte(SetByte(result, writePos, 1), writePos + 1, 1))
         ELSE encodeFrom(bytes, i + 1, writePos + 1,
                         SetByte(result, writePos, bytes[i + 1]))

segmentFromBytes(bytes) ==
    encodeFrom(bytes, 0, 0, Zeros(Len(bytes) + nullCountFrom(bytes, 0)))

\* bytesFromSegment(segment): 0x01 0x01 is read as 0x00, scanning upwards
RECURSIVE encodedNullCountFrom(_, _)
encodedNullCountFrom(segment, i) ==
    IF i >= Len(segment) - 1 THEN 0
    ELSE IF segment[i + 1] = 1 /\ segment[i + 2] = 1
         THEN 1 + encodedNullCountFrom(segment, i + 2)
         ELSE encodedNullCountFrom(segment, i + 1)

RECURSIVE decodeFrom(_, _, _, _)
decodeFrom(segment, i, writePos, result) ==
    IF i >= Len(segment) THEN result
    ELSE IF i < Len(segment) - 1 /\ segment[i + 1] = 1 /\ segment[i + 2] = 1
         THEN decodeFrom(segment, i + 2, writePos + 1, SetByte(result, writePos, 0))
         ELSE decodeFrom(segment, i + 1, writePos + 1,
                         SetByte(result, writePos, segment[i + 1]))

bytesFromSegment(segment) ==
    decodeFrom(segment, 0, 0,
               Zeros(Len(segment) - encodedNullCountFrom(segment, 0)))

----------------------------------------------------------------------------
(* Fractional indexing *)

\* while (diffIndex < minLen && a[diffIndex] === b[diffIndex]) diffIndex++
RECURSIVE diffIndexFrom(_, _, _)
diffIndexFrom(a, b, d) ==
    IF d < Min(Len(a), Len(b)) /\ a[d + 1] = b[d + 1]
    THEN diffIndexFrom(a, b, d + 1)
    ELSE d

\* while (segmentEnd < a.length && a[segmentEnd] !== 0x00) segmentEnd++
RECURSIVE segmentEndFrom(_, _)
segmentEndFrom(a, e) ==
    IF e < Len(a) /\ a[e + 1] # 0 THEN segmentEndFrom(a, e + 1) ELSE e

\* between, first argument empty
betweenStart(b) ==
    IF b[1] > 1
    THEN Ok(<<b[1] \div 2, 0>>)
    ELSE Ok(<<1, 128, 0>>)

\* betweenEnd without the 0xFF case: the last byte is always incremented
betweenEnd_NoExtend(a) ==
    IF Len(a) < 2 THEN Err("InvalidKey")
    ELSE LET lastByteIndex == Len(a) - 2
             lastByte == a[lastByteIndex + 1]
         IN Ok(SetByte(SetFront(Zeros(Len(a)), a), lastByteIndex,
                       lastByte + ((255 - lastByte) \div 2) + 1))

\* between, second argument empty
betweenEnd(a) ==
    IF Len(a) < 2 THEN Err("InvalidKey")
    ELSE LET lastByteIndex == Len(a) - 2
             lastByte == a[lastByteIndex + 1]
         IN IF lastByte < 255
            THEN Ok(SetByte(SetFront(Zeros(Len(a)), a), lastByteIndex,
                            lastByte + ((255 - lastByte) \div 2) + 1))
            ELSE Ok(SetByte(SetByte(SetFront(Zeros(Len(a) + 1),
                                             Slice(a, 0, Len(a) - 1)),
                                    Len(a) - 1, 128),
                            Len(a), 0))

\* between, a[diffIndex] is a terminator: the new key goes below a
betweenChild(a, b, diffIndex) ==
    LET bNextByte == IF diffIndex < Len(b) THEN b[diffIndex + 1] ELSE 0
    IN IF bNextByte > 1
       THEN Ok(SetByte(SetByte(SetFront(Zeros(diffIndex + 2),
                                        Slice(a, 0, diffIndex + 1)),
                               diffIndex + 1, bNextByte \div 2),
                       diffIndex + 2, 0))
       ELSE Ok(SetByte(SetByte(SetByte(SetFront(Zeros(diffIndex + 3),
                                                Slice(a, 0, diffIndex + 1)),
                                       diffIndex + 1, 1),
                               diffIndex + 2, 128),
                       diffIndex + 3, 0))

\* betweenDiffer without the scan to the end of a's segment: the 0x80 byte is
\* written at diffIndex
betweenDiffer_NoScan(a, b, diffIndex) ==
    LET aByte == IF diffIndex < Len(a) THEN a[diffIndex + 1] ELSE 0
        bByte == IF diffIndex < Len(b) THEN b[diffIndex + 1] ELSE 0
    IN IF bByte - aByte > 1
       THEN Ok(SetByte(SetByte(SetFront(Zeros(diffIndex + 2),
                                        Slice(a, 0, diffIndex)),
                               diffIndex, aByte + ((bByte - aByte) \div 2)),
                       diffIndex + 1, 0))
       ELSE Ok(SetByte(SetByte(SetFront(Zeros(diffIndex + 2),
                                        Slice(a, 0, diffIndex)),
                               diffIndex, 128),
                       diffIndex + 1, 0))

\* between, the bytes at diffIndex differ: midpoint byte, or extend a's segment
betweenDiffer(a, b, diffIndex) ==
    LET aByte == IF diffIndex < Len(a) THEN a[diffIndex + 1] ELSE 0
        bByte == IF diffIndex < Len(b) THEN b[diffIndex + 1] ELSE 0
    IN IF bByte - aByte > 1
       THEN Ok(SetByte(SetByte(SetFront(Zeros(diffIndex + 2),
                                        Slice(a, 0, diffIndex)),
                               diffIndex, aByte + ((bByte - aByte) \div 2)),
                       diffIndex + 1, 0))
       ELSE LET segmentEnd == segmentEndFrom(a, diffIndex)
            IN Ok(SetByte(SetByte(SetFront(Zeros(segmentEnd + 2),
                                           Slice(a, 0, segmentEnd)),
                                  segmentEnd, 128),
                          segmentEnd + 1, 0))

between(a, b) ==
    IF Len(a) = 0 /\ Len(b) = 0 THEN Ok(<<128, 0>>)
    ELSE IF Len(a) = 0 THEN betweenStart(b)
    ELSE IF Len(b) = 0 THEN betweenEnd(a)
    ELSE LET diffIndex == diffIndexFrom(a, b, 0)
         IN IF diffIndex < Len(a) /\ a[diffIndex + 1] = 0
            THEN betweenChild(a, b, diffIndex)
            ELSE IF diffIndex < Len(b) /\ b[diffIndex + 1] = 0
            THEN Err("InvalidOrdering")
            ELSE betweenDiffer(a, b, diffIndex)

----------------------------------------------------------------------------
(* Vocabulary of the data model *)

\* a valid key: non-empty, ends in 0x00, every segment has at least one byte
IsValidKey(k) ==
    /\ Len(k) > 0
    /\ k[Len(k)] = 0
    /\ k[1] # 0
    /\ \A i \in 1..(Len(k) - 1) : ~(k[i] = 0 /\ k[i + 1] = 0)
    /\ \A i \in 1..Len(k) : k[i] \in 0..255

\* X is a strict byte-prefix of Y that ends at a segment terminator
IsAncestor(x, y) ==
    /\ Len(x) > 0
    /\ Len(x) < Len(y)
    /\ SubSeq(y, 1, Len(x)) = x
    /\ x[Len(x)] = 0

segmentCount(k) == Cardinality({i \in 1..Len(k) : k[i] = 0})

----------------------------------------------------------------------------
(* The store: schema of initMatrixSchema and createMatrix *)

\* an optional parameter: absent (undefined) or one key
None == {}
Some(k) == {k}
Has(opt) == opt # {}
Val(opt) == CHOOSE k \in opt : TRUE

\* SELECT key FROM ordering WHERE matrix_id = m
KeysOf(m) == {r.key : r \in {x \in ordering : x.matrix_id = m}}

\* ORDER BY key ASC LIMIT 1 / ORDER BY key DESC LIMIT 1 (BLOBs compare bytewise,
\* a prefix before its extensions, as compareKeys does)
MinKey(S) == CHOOSE k \in S : \A j \in S : compareKeys(k, j) <= 0
MaxKey(S) == CHOOSE k \in S : \A j \in S : compareKeys(k, j) >= 0

\* CHECK (length(key) > 0 AND substr(key, length(key), 1) = x'00')
KeyCheck(key) == Len(key) > 0 /\ key[Len(key)] = 0

NoParams == [matrixId |-> 0, parentKey |-> None, prevKey |-> None,
             nextKey |-> None, elementKind |-> 0, elementId |-> 0]

\* no transaction is open
NoSnapshot == [ordering |-> {}, closure |-> [m \in {} |-> {}]]

\* createQuerySubject has returned: nothing is subscribed
SubjectInit ==
    /\ subscribed = {}
    /\ refCount = 0
    /\ connected = FALSE
    /\ subscriberCount = 0
    /\ cleanup = "null"
    /\ setupCalls = 0
    /\ cleanupCalls = 0

DbInit ==
    /\ matrix = {}
    /\ ordering = {}
    /\ closure = [m \in {} |-> {}]
    /\ pc = "idle"
    /\ call = NoParams
    /\ orderingKey = <<>>
    /\ error = "none"
    /\ snapshot = NoSnapshot
    /\ txn = <<>>
    /\ returned = NoCall
    /\ calls = 0
    /\ outline = [m \in {} |-> <<>>]

\* no codec function has been called
CodecIdle ==
    /\ op = "none"
    /\ segs = <<>>
    /\ segsOut = <<>>
    /\ cmp = 0
    /\ bytesOut = <<>>

KeyInit ==
    /\ ka = <<>>
    /\ kb = <<>>
    /\ kres = NoCall
    /\ iter = 0
    /\ CodecIdle

\* createMatrix: a new registry row and an empty closure table for it
createMatrix ==
    /\ pc = "idle"
    /\ Cardinality(matrix) < MaxMatrixes
    /\ LET matrixId == Cardinality(matrix) + 1
       IN /\ matrix' = matrix \cup {matrixId}
          /\ closure' = [m \in matrix \cup {matrixId} |->
                            IF m = matrixId THEN {} ELSE closure[m]]
          /\ outline' = [m \in matrix \cup {matrixId} |->
                            IF m = matrixId THEN <<>> ELSE outline[m]]
    /\ UNCHANGED <<ordering, callvars, keyvars, subjectvars>>

----------------------------------------------------------------------------
(* insertElement: resolution of the ordering key *)

\* prevKey only
resolveAfter(m, parentKey, prevKey) ==
    IF Has(parentKey)
    THEN LET parentUpperBound == nextPrefix(Val(parentKey))
         IN IF parentUpperBound.err # "none" THEN parentUpperBound
            ELSE LET found == {k \in KeysOf(m) :
                                  /\ compareKeys(k, prevKey) > 0
                                  /\ compareKeys(k, parentUpperBound.key) < 0}
                     candidateKey == MinKey(found)
                     upperBound ==
                         IF found # {}
                            /\ Len(parseKey(candidateKey)) = Len(parseKey(Val(parentKey))) + 1
                         THEN candidateKey
                         ELSE <<>>
                 IN between(prevKey, upperBound)
    ELSE LET found == {k \in KeysOf(m) : compareKeys(k, prevKey) > 0}
             candidateKey == MinKey(found)
             upperBound ==
                 IF found # {}
                    /\ ~(Len(parseKey(candidateKey)) > Len(parseKey(prevKey)))
                 THEN candidateKey
                 ELSE <<>>
         IN between(prevKey, upperBound)

\* resolveBefore with the lower bound left open when no earlier sibling is
\* found under the parent
resolveBefore_OpenLowerBound(m, parentKey, nextKey) ==
    LET found == {k \in KeysOf(m) :
                     /\ compareKeys(k, nextKey) < 0
                     /\ (Has(parentKey) => compareKeys(k, Val(parentKey)) > 0)}
        candidateKey == MaxKey(found)
        lowerBound ==
            IF found # {}
               /\ Len(parseKey(candidateKey)) = Len(parseKey(nextKey))
            THEN candidateKey
            ELSE <<>>
    IN between(lowerBound, nextKey)

\* nextKey only
resolveBefore(m, parentKey, nextKey) ==
    IF Has(parentKey)
    THEN LET found == {k \in KeysOf(m) :
                          /\ compareKeys(k, nextKey) < 0
                          /\ compareKeys(k, Val(parentKey)) > 0}
             candidateKey == MaxKey(found)
             lowerBound ==
                 IF found # {}
                    /\ Len(parseKey(candidateKey)) = Len(parseKey(Val(parentKey))) + 1
                 THEN candidateKey
                 ELSE Val(parentKey)
         IN between(lowerBound, nextKey)
    ELSE LET found == {k \in KeysOf(m) : compareKeys(k, nextKey) < 0}
             candidateKey == MaxKey(found)
             lowerBound ==
                 IF found # {}
                    /\ ~(Len(parseKey(candidateKey)) # Len(parseKey(nextKey)))
                 THEN candidateKey
                 ELSE <<>>
         IN between(lowerBound, nextKey)

\* parentKey only
resolveFirstChild(m, parentKey) ==
    LET upperBound == nextPrefix(parentKey)
    IN IF upperBound.err # "none" THEN upperBound
       ELSE LET found == {k \in KeysOf(m) :
                             /\ compareKeys(k, parentKey) > 0
                             /\ compareKeys(k, upperBound.key) < 0}
            IN IF found # {}
               THEN between(parentKey, MinKey(found))
               ELSE makeKey(Append(parseKey(parentKey), <<128>>))

\* no bounds
resolveLast(m) ==
    LET found == KeysOf(m)
        lastKey == IF found # {} THEN MaxKey(found) ELSE <<>>
    IN between(lastKey, <<>>)

\* the if / else-if ladder that computes orderingKey
resolveKey(params) ==
    IF Has(params.prevKey) /\ Has(params.nextKey)
    THEN between(Val(params.prevKey), Val(params.nextKey))
    ELSE IF Has(params.prevKey)
    THEN resolveAfter(params.matrixId, params.parentKey, Val(params.prevKey))
    ELSE IF Has(params.nextKey)
    THEN resolveBefore(params.matrixId, params.parentKey, Val(params.nextKey))
    ELSE IF Has(params.parentKey)
    THEN resolveFirstChild(params.matrixId, Val(params.parentKey))
    ELSE resolveLast(params.matrixId)

----------------------------------------------------------------------------
(* The order the calls asked for.  outline[m] lists the rows of matrix m   *)
(* as the calls placed them: under parentKey, directly after prevKey,      *)
(* directly before nextKey, first under a parent named alone, last at root *)
(* level when nothing is named.                                            *)

IndexOf(seq, key) == CHOOSE i \in 1..Len(seq) : seq[i].key = key

OutlineKeys(seq) == {seq[i].key : i \in 1..Len(seq)}

\* the row one level up that the row at position i was placed under
ParentIn(seq, i) ==
    LET above == {j \in 1..(i - 1) : seq[j].level < seq[i].level}
    IN IF above = {} THEN None
       ELSE Some(seq[CHOOSE j \in above : \A t \in above : t <= j].key)

\* position of the last row placed below the row at position i (i if none)
SubtreeEnd(seq, i) ==
    CHOOSE j \in i..Len(seq) :
        /\ \A t \in (i + 1)..j : seq[t].level > seq[i].level
        /\ (j = Len(seq) \/ seq[j + 1].level <= seq[i].level)

\* the neighbours named by the call are children of the parent it names
WellFormedCall(params, seq) ==
    /\ params.parentKey \cup params.prevKey \cup params.nextKey \subseteq OutlineKeys(seq)
    /\ Has(params.prevKey) =>
          ParentIn(seq, IndexOf(seq, Val(params.prevKey))) = params.parentKey
    /\ Has(params.nextKey) =>
          ParentIn(seq, IndexOf(seq, Val(params.nextKey))) = params.parentKey
    /\ (Has(params.prevKey) /\ Has(params.nextKey)) =>
          SubtreeEnd(seq, IndexOf(seq, Val(params.prevKey))) + 1
              = IndexOf(seq, Val(params.nextKey))

\* the outline after the call has placed its row
Placed(params, seq, key) ==
    LET at == IF Has(params.prevKey)
                 THEN SubtreeEnd(seq, IndexOf(seq, Val(params.prevKey)))
              ELSE IF Has(params.nextKey)
                 THEN IndexOf(seq, Val(params.nextKey)) - 1
              ELSE IF Has(params.parentKey)
                 THEN IndexOf(seq, Val(params.parentKey))
              ELSE Len(seq)
        level == IF Has(params.parentKey)
                    THEN seq[IndexOf(seq, Val(params.parentKey))].level + 1
                 ELSE 0
    IN SubSeq(seq, 1, at) \o <<[key |-> key, level |-> level]>>
           \o SubSeq(seq, at + 1, Len(seq))

----------------------------------------------------------------------------
(* insertElement, statement by statement *)

Opt(S) == {None} \cup {Some(k) : k \in S}

\* what a call places in matrix m: a data row (element_kind 0, as every caller
\* passes) with the next rowid of the matrix's data table
Elements(m) ==
    {[kind |-> 0, id |-> Cardinality({r \in ordering : r.matrix_id = m}) + 1]}

\* the call and db.exec('BEGIN TRANSACTION').  The caller names rows of the
\* matrix, and neighbours that are children of the parent it names.
Begin ==
    /\ pc = "idle"
    /\ calls < MaxCalls
    /\ \E matrixId \in matrix :
       \E parentKey \in Opt(KeysOf(matrixId)) :
       \E prevKey \in Opt(KeysOf(matrixId)) :
       \E nextKey \in Opt(KeysOf(matrixId)) :
       \E element \in Elements(matrixId) :
          /\ WellFormedCall([parentKey |-> parentKey, prevKey |-> prevKey,
                             nextKey |-> nextKey], outline[matrixId])
          /\ call' = [matrixId |-> matrixId, parentKey |-> parentKey,
                   prevKey |-> prevKey, nextKey |-> nextKey,
                   elementKind |-> element.kind, elementId |-> element.id]
    /\ calls' = calls + 1
    /\ snapshot' = [ordering |-> ordering, closure |-> closure]
    /\ txn' = <<"BEGIN">>
    /\ orderingKey' = <<>>
    /\ error' = "none"
    /\ pc' = "resolve"
    /\ UNCHANGED <<returned, dbvars, histvars, keyvars, subjectvars>>

\* compute the ordering key
ComputeKey ==
    /\ pc = "resolve"
    /\ LET r == resolveKey(call)
       IN IF r.err = "none"
          THEN /\ orderingKey' = r.key
               /\ pc' = "insertOrdering"
               /\ UNCHANGED error
          ELSE /\ error' = r.err
               /\ pc' = "catch"
               /\ UNCHANGED orderingKey
    /\ UNCHANGED <<call, snapshot, txn, returned, calls, dbvars, histvars, keyvars, subjectvars>>

\* INSERT OR REPLACE INTO ordering: a row with the same key is overwritten
InsertOrdering_Replace ==
    /\ pc = "insertOrdering"
    /\ IF ~KeyCheck(orderingKey)
       THEN error' = "Check" /\ pc' = "catch" /\ UNCHANGED ordering
       ELSE /\ ordering' = {r \in ordering : r.key # orderingKey} \cup
                   {[key |-> orderingKey, matrix_id |-> call.matrixId,
                     element_kind |-> call.elementKind,
                     element_id |-> call.elementId]}
            /\ pc' = "insertSelf"
            /\ UNCHANGED error
    /\ UNCHANGED <<matrix, closure, call, orderingKey, snapshot, txn, returned,
                   calls, histvars, keyvars, subjectvars>>

\* an ordering table without the CHECK on key
InsertOrdering_NoCheck ==
    /\ pc = "insertOrdering"
    /\ \E storeFails \in BOOLEAN :
          IF storeFails
          THEN error' = "StoreFailure: ordering" /\ pc' = "catch" /\ UNCHANGED ordering
          ELSE IF \E r \in ordering : r.key = orderingKey
          THEN error' = "PrimaryKey" /\ pc' = "catch" /\ UNCHANGED ordering
          ELSE /\ ordering' = ordering \cup
                      {[key |-> orderingKey, matrix_id |-> call.matrixId,
                        element_kind |-> call.elementKind,
                        element_id |-> call.elementId]}
               /\ pc' = "insertSelf"
               /\ UNCHANGED error
    /\ UNCHANGED <<matrix, closure, call, orderingKey, snapshot, txn, returned,
                   calls, histvars, keyvars, subjectvars>>

\* INSERT INTO ordering: key is the primary key of the whole table, the CHECK
\* wants a final 0x00; the store may also refuse the write
InsertOrdering ==
    /\ pc = "insertOrdering"
    /\ \E storeFails \in BOOLEAN :
          IF storeFails
          THEN error' = "StoreFailure: ordering" /\ pc' = "catch" /\ UNCHANGED ordering
          ELSE IF \E r \in ordering : r.key = orderingKey
          THEN error' = "PrimaryKey" /\ pc' = "catch" /\ UNCHANGED ordering
          ELSE IF ~KeyCheck(orderingKey)
          THEN error' = "Check" /\ pc' = "catch" /\ UNCHANGED ordering
          ELSE /\ ordering' = ordering \cup
                      {[key |-> orderingKey, matrix_id |-> call.matrixId,
                        element_kind |-> call.elementKind,
                        element_id |-> call.elementId]}
               /\ pc' = "insertSelf"
               /\ UNCHANGED error
    /\ UNCHANGED <<matrix, closure, call, orderingKey, snapshot, txn, returned,
                   calls, histvars, keyvars, subjectvars>>

\* errors of the store that no constraint explains (disk full, I/O error)
StoreFailures == {"StoreFailure: ordering", "StoreFailure: closure",
                  "StoreFailure: ancestors", "StoreFailure: commit"}

\* a closure row can be written unless its (ancestor_key, descendant_key) exists
ClosureHas(m, ancestor_key, descendant_key) ==
    \E r \in closure[m] : r.ancestor_key = ancestor_key
                          /\ r.descendant_key = descendant_key

\* insertElement without the self-reference INSERT
InsertSelf_Skipped ==
    /\ pc = "insertSelf"
    /\ pc' = "insertAncestors"
    /\ UNCHANGED <<matrix, ordering, closure, call, orderingKey, error, snapshot,
                   txn, returned, calls, histvars, keyvars, subjectvars>>

\* INSERT INTO mx_<id>_closure: self-reference (depth 0)
InsertSelf ==
    /\ pc = "insertSelf"
    /\ \E storeFails \in BOOLEAN :
          IF storeFails
          THEN error' = "StoreFailure: closure" /\ pc' = "catch" /\ UNCHANGED closure
          ELSE IF ClosureHas(call.matrixId, orderingKey, orderingKey)
          THEN error' = "PrimaryKey" /\ pc' = "catch" /\ UNCHANGED closure
          ELSE /\ closure' = [closure EXCEPT ![call.matrixId] = @ \cup
                      {[ancestor_key |-> orderingKey,
                        descendant_key |-> orderingKey, depth |-> 0]}]
               /\ pc' = "insertAncestors"
               /\ UNCHANGED error
    /\ UNCHANGED <<matrix, ordering, call, orderingKey, snapshot, txn, returned,
                   calls, histvars, keyvars, subjectvars>>

\* only the row for the direct parent
AncestorRows_ParentOnly(m, parentKey, key) ==
    {[ancestor_key |-> parentKey, descendant_key |-> key, depth |-> 1]}

\* rows (X, orderingKey, d + 1) for the rows (X, parentKey, d)
AncestorRows(m, parentKey, key) ==
    {[ancestor_key |-> r.ancestor_key, descendant_key |-> key,
      depth |-> r.depth + 1] :
        r \in {x \in closure[m] : x.descendant_key = parentKey}}

\* if (parentKey): one INSERT per ancestor of the parent; the store may refuse
\* one of them after some have been written
InsertAncestors ==
    /\ pc = "insertAncestors"
    /\ IF Has(call.parentKey)
       THEN LET rows == AncestorRows(call.matrixId, Val(call.parentKey), orderingKey)
                taken == {r \in rows : ClosureHas(call.matrixId, r.ancestor_key,
                                                  r.descendant_key)}
            IN \E written \in SUBSET (rows \ taken) :
                  /\ closure' = [closure EXCEPT ![call.matrixId] = @ \cup written]
                  /\ IF written = rows
                     THEN pc' = "commit" /\ UNCHANGED error
                     ELSE /\ error' = IF taken # {} THEN "PrimaryKey"
                                      ELSE "StoreFailure: ancestors"
                          /\ pc' = "catch"
       ELSE pc' = "commit" /\ UNCHANGED <<closure, error>>
    /\ UNCHANGED <<matrix, ordering, call, orderingKey, snapshot, txn, returned,
                   calls, histvars, keyvars, subjectvars>>

\* db.exec('COMMIT'); return orderingKey
\* a COMMIT issued after the try block: its failure leaves the call at once
Commit_OutsideTry ==
    /\ pc = "commit"
    /\ txn' = Append(txn, "COMMIT")
    /\ \E storeFails \in BOOLEAN :
          IF storeFails
          THEN /\ returned' = Err("StoreFailure: commit")
               /\ UNCHANGED outline
          ELSE /\ returned' = Ok(orderingKey)
               /\ outline' = [outline EXCEPT
                                 ![call.matrixId] = Placed(call, @, orderingKey)]
    /\ pc' = "idle"
    /\ call' = NoParams
    /\ orderingKey' = <<>>
    /\ snapshot' = NoSnapshot
    /\ UNCHANGED <<error, calls, dbvars, keyvars, subjectvars>>

\* COMMIT is the last statement of the try block: when it throws, the catch
\* block runs, as for any other statement
Commit ==
    /\ pc = "commit"
    /\ txn' = Append(txn, "COMMIT")
    /\ \E storeFails \in BOOLEAN :
          IF storeFails
          THEN /\ error' = "StoreFailure: commit"
               /\ pc' = "catch"
               /\ UNCHANGED <<returned, outline, call, orderingKey, snapshot>>
          ELSE /\ returned' = Ok(orderingKey)
               /\ pc' = "idle"
               /\ outline' = [outline EXCEPT
                                 ![call.matrixId] = Placed(call, @, orderingKey)]
               /\ call' = NoParams
               /\ orderingKey' = <<>>
               /\ snapshot' = NoSnapshot
               /\ UNCHANGED error
    /\ UNCHANGED <<calls, dbvars, keyvars, subjectvars>>

\* a catch block that rethrows without ROLLBACK taking effect
Rollback_NoRestore ==
    /\ pc = "catch"
    /\ txn' = Append(txn, "ROLLBACK")
    /\ returned' = Err(error)
    /\ pc' = "idle"
    /\ call' = NoParams
    /\ orderingKey' = <<>>
    /\ snapshot' = NoSnapshot
    /\ error' = "none"
    /\ UNCHANGED <<dbvars, calls, histvars, keyvars, subjectvars>>

\* catch: db.exec('ROLLBACK'); throw error
Rollback ==
    /\ pc = "catch"
    /\ ordering' = snapshot.ordering
    /\ closure' = snapshot.closure
    /\ txn' = Append(txn, "ROLLBACK")
    /\ returned' = Err(error)
    /\ pc' = "idle"
    /\ call' = NoParams
    /\ orderingKey' = <<>>
    /\ snapshot' = NoSnapshot
    /\ error' = "none"
    /\ UNCHANGED <<matrix, calls, histvars, keyvars, subjectvars>>

insertElement ==
    \/ Begin
    \/ ComputeKey
    \/ InsertOrdering
    \/ InsertSelf
    \/ InsertAncestors
    \/ Commit
    \/ Rollback

Init == DbInit /\ KeyInit /\ SubjectInit

Next == createMatrix \/ insertElement

Spec == Init /\ [][Next]_vars

\* the statements that can follow each statement of insertElement: the next
\* one of the try block, or the catch block when it throws
PcAfter(p) ==
    CASE p = "resolve"         -> {"insertOrdering", "catch"}
      [] p = "insertOrdering"  -> {"insertSelf", "catch"}
      [] p = "insertSelf"      -> {"insertAncestors", "catch"}
      [] p = "insertAncestors" -> {"commit", "catch"}
      [] p = "commit"          -> {"idle", "catch"}
      [] p = "catch"           -> {"idle"}
      [] OTHER                 -> {}

\* insertElement is synchronous code on one thread: once BEGIN has run, every
\* following statement of the call runs as soon as the one before it is over
Continue == pc' \in PcAfter(pc)

Fairness == WF_pc(Continue)

\* the calls of Spec, fewer of them
BeginLive == calls < MaxLiveCalls /\ Begin

NextLive ==
    \/ createMatrix
    \/ BeginLive
    \/ ComputeKey
    \/ InsertOrdering
    \/ InsertSelf
    \/ InsertAncestors
    \/ Commit
    \/ Rollback

SpecLive == Init /\ [][NextLive]_vars /\ Fairness

----------------------------------------------------------------------------
(* Repeated first-child insertion: one call without bounds places a root    *)
(* row, every later call names that row as parentKey and nothing else.      *)

BeginFirstChild ==
    /\ pc = "idle"
    /\ calls < MaxFirstChildCalls
    /\ \E matrixId \in matrix :
       \E parentKey \in IF KeysOf(matrixId) = {} THEN {None}
                         ELSE {Some(k) : k \in {x \in KeysOf(matrixId) :
                                                   segmentCount(x) = 1}} :
       \E element \in Elements(matrixId) :
          call' = [matrixId |-> matrixId, parentKey |-> parentKey,
                   prevKey |-> None, nextKey |-> None,
                   elementKind |-> element.kind, elementId |-> element.id]
    /\ calls' = calls + 1
    /\ snapshot' = [ordering |-> ordering, closure |-> closure]
    /\ txn' = <<"BEGIN">>
    /\ orderingKey' = <<>>
    /\ error' = "none"
    /\ pc' = "resolve"
    /\ UNCHANGED <<returned, dbvars, histvars, keyvars, subjectvars>>

NextFirstChild ==
    \/ createMatrix
    \/ BeginFirstChild
    \/ ComputeKey
    \/ InsertOrdering
    \/ InsertSelf
    \/ InsertAncestors
    \/ Commit
    \/ Rollback

SpecFirstChild == Init /\ [][NextFirstChild]_vars

----------------------------------------------------------------------------
(* A run of root-level rows: every call either names nothing (the row goes  *)
(* to the end) or names the last two rows of the run as prevKey and nextKey *)
(* (the row goes between them).                                             *)

BeginRun ==
    /\ pc = "idle"
    /\ calls < MaxRunCalls
    /\ \E matrixId \in matrix :
       \E neighbours \in
             {<<None, None>>} \cup
             (LET seq == outline[matrixId]
              IN IF Len(seq) >= 2
                 THEN {<<Some(seq[Len(seq) - 1].key), Some(seq[Len(seq)].key)>>}
                 ELSE {}) :
       \E element \in Elements(matrixId) :
          call' = [matrixId |-> matrixId, parentKey |-> None,
                   prevKey |-> neighbours[1], nextKey |-> neighbours[2],
                   elementKind |-> element.kind, elementId |-> element.id]
    /\ calls' = calls + 1
    /\ snapshot' = [ordering |-> ordering, closure |-> closure]
    /\ txn' = <<"BEGIN">>
    /\ orderingKey' = <<>>
    /\ error' = "none"
    /\ pc' = "resolve"
    /\ UNCHANGED <<returned, dbvars, histvars, keyvars, subjectvars>>

NextRun ==
    \/ createMatrix
    \/ BeginRun
    \/ ComputeKey
    \/ InsertOrdering
    \/ InsertSelf
    \/ InsertAncestors
    \/ Commit
    \/ Rollback

SpecRun == Init /\ [][NextRun]_vars

----------------------------------------------------------------------------
(* Arguments of between: the empty sequence and every valid key of at most *)
(* MaxKeyLen bytes over TestBytes                                          *)

ByteSeqs(n) == [1..n -> TestBytes \cup {0}]

KeysUpTo(n) == UNION {{k \in ByteSeqs(m) : IsValidKey(k)} : m \in 2..n}

Bounds == KeysUpTo(MaxKeyLen) \cup {<<>>}

InitBetween ==
    /\ ka \in Bounds
    /\ kb \in Bounds
    /\ kres = NoCall
    /\ iter = 0
    /\ CodecIdle
    /\ DbInit
    /\ SubjectInit

CallBetween ==
    /\ kres = NoCall
    /\ kres' = between(ka, kb)
    /\ UNCHANGED <<ka, kb, iter, codecvars, dbvars, callvars, histvars, subjectvars>>

NextBetween == CallBetween

SpecBetween == InitBetween /\ [][NextBetween]_vars

----------------------------------------------------------------------------
(* Repeated insertion between fixed neighbours: the test 'repeated         *)
(* insertions work correctly' carried on for MaxIter rounds, from every    *)
(* adjacent pair of single-byte keys                                       *)

InitRepeat ==
    /\ \E x \in 1..254 : ka = <<x, 0>> /\ kb = <<x + 1, 0>>
    /\ kres = NoCall
    /\ iter = 0
    /\ CodecIdle
    /\ DbInit
    /\ SubjectInit

\* mid(i+1) = between(a, mid(i))
RepeatBetween ==
    /\ kres.err = "none"
    /\ iter < MaxIter
    /\ kb' = kres.key
    /\ kres' = between(ka, kres.key)
    /\ iter' = iter + 1
    /\ UNCHANGED <<ka, codecvars, dbvars, callvars, histvars, subjectvars>>

NextRepeat == CallBetween \/ RepeatBetween

SpecRepeat == InitRepeat /\ [][NextRepeat]_vars

----------------------------------------------------------------------------
(* The codec functions called on their own: makeKey on every list of at    *)
(* most MaxSegs segments of at most MaxSegLen bytes, parseKey, compareKeys *)
(* and nextPrefix on every byte sequence of at most MaxSeqLen bytes, all   *)
(* over CodecBytes; then the two round trips of the test 'round-trip       *)
(* preserves segments'.                                                    *)

SeqsUpTo(n) == UNION {[1..m -> CodecBytes] : m \in 0..n}

SegmentLists == UNION {[1..m -> SeqsUpTo(MaxSegLen)] : m \in 0..MaxSegs}

InitCodec ==
    /\ \/ ka \in SeqsUpTo(MaxSeqLen) /\ kb \in SeqsUpTo(MaxSeqLen) /\ segs = <<>>
       \/ ka = <<>> /\ kb = <<>> /\ segs \in SegmentLists
    /\ kres = NoCall
    /\ iter = 0
    /\ op = "none"
    /\ segsOut = <<>>
    /\ cmp = 0
    /\ bytesOut = <<>>
    /\ DbInit
    /\ SubjectInit

\* key = makeKey(segments)
CallMakeKey ==
    /\ op = "none"
    /\ kres' = makeKey(segs)
    /\ op' = "makeKey"
    /\ UNCHANGED <<ka, kb, iter, segs, segsOut, cmp, bytesOut, dbvars, callvars, histvars, subjectvars>>

\* parsed = parseKey(key) on the key makeKey returned
ParseMadeKey ==
    /\ op = "makeKey"
    /\ kres.err = "none"
    /\ segsOut' = parseKey(kres.key)
    /\ op' = "makeKey;parseKey"
    /\ UNCHANGED <<ka, kb, kres, iter, segs, cmp, bytesOut, dbvars, callvars, histvars, subjectvars>>

\* parsed = parseKey(key)
CallParseKey ==
    /\ op = "none"
    /\ segsOut' = parseKey(ka)
    /\ op' = "parseKey"
    /\ UNCHANGED <<ka, kb, kres, iter, segs, cmp, bytesOut, dbvars, callvars, histvars, subjectvars>>

\* makeKey(parsed) on the segments parseKey returned
MakeParsedKey ==
    /\ op = "parseKey"
    /\ kres' = makeKey(segsOut)
    /\ op' = "parseKey;makeKey"
    /\ UNCHANGED <<ka, kb, iter, segs, segsOut, cmp, bytesOut, dbvars, callvars, histvars, subjectvars>>

\* compareKeys(a, b)
CallCompareKeys ==
    /\ op = "none"
    /\ cmp' = compareKeys(ka, kb)
    /\ op' = "compareKeys"
    /\ UNCHANGED <<ka, kb, kres, iter, segs, segsOut, bytesOut, dbvars, callvars, histvars, subjectvars>>

\* nextPrefix(prefix)
CallNextPrefix ==
    /\ op = "none"
    /\ kres' = nextPrefix(ka)
    /\ op' = "nextPrefix"
    /\ UNCHANGED <<ka, kb, iter, segs, segsOut, cmp, bytesOut, dbvars, callvars, histvars, subjectvars>>

\* encoded = segmentFromBytes(original)
CallSegmentFromBytes ==
    /\ op = "none"
    /\ kres' = Ok(segmentFromBytes(ka))
    /\ op' = "segmentFromBytes"
    /\ UNCHANGED <<ka, kb, iter, segs, segsOut, cmp, bytesOut, dbvars, callvars, histvars, subjectvars>>

\* decoded = bytesFromSegment(encoded)
DecodeSegment ==
    /\ op = "segmentFromBytes"
    /\ bytesOut' = bytesFromSegment(kres.key)
    /\ op' = "segmentFromBytes;bytesFromSegment"
    /\ UNCHANGED <<ka, kb, kres, iter, segs, segsOut, cmp, dbvars, callvars, histvars, subjectvars>>

NextCodec ==
    \/ CallMakeKey
    \/ ParseMadeKey
    \/ CallParseKey
    \/ MakeParsedKey
    \/ CallCompareKeys
    \/ CallNextPrefix
    \/ CallSegmentFromBytes
    \/ DecodeSegment

SpecCodec == InitCodec /\ [][NextCodec]_vars

----------------------------------------------------------------------------
(* createQuerySubject: source$ behind shareReplay({ bufferSize: 1,          *)
(* refCount: true }).  shareReplay subscribes to source$ when its first     *)
(* subscriber arrives and unsubscribes from it, synchronously, when its     *)
(* last subscriber leaves; the subject behind source$ never completes or    *)
(* errors, and setup returns a cleanup function.                            *)

\* the subscribe function of source$ (runs when shareReplay connects)
SourceSubscribed ==
    /\ IF subscriberCount = 0
       THEN setupCalls' = setupCalls + 1 /\ cleanup' = "fn"
       ELSE UNCHANGED <<setupCalls, cleanup>>
    /\ subscriberCount' = subscriberCount + 1
    /\ UNCHANGED cleanupCalls

\* the teardown returned by source$'s subscribe function
SourceTornDown ==
    /\ subscriberCount' = subscriberCount - 1
    /\ IF subscriberCount - 1 = 0 /\ cleanup # "null"
       THEN cleanupCalls' = cleanupCalls + 1 /\ cleanup' = "null"
       ELSE UNCHANGED <<cleanupCalls, cleanup>>
    /\ UNCHANGED setupCalls

\* a subscribe that sets the subject up again on every call
Subscribe_NoRefCount(s) ==
    /\ s \notin subscribed
    /\ setupCalls < MaxSetups
    /\ subscribed' = subscribed \cup {s}
    /\ refCount' = refCount + 1
    /\ connected' = TRUE
    /\ setupCalls' = setupCalls + 1
    /\ cleanup' = "fn"
    /\ subscriberCount' = subscriberCount + 1
    /\ UNCHANGED <<cleanupCalls, keyvars, dbvars, callvars, histvars>>

\* observable.subscribe(): shareReplay counts the subscriber and connects to
\* source$ if it is not connected
Subscribe(s) ==
    /\ s \notin subscribed
    /\ (~connected) => setupCalls < MaxSetups
    /\ subscribed' = subscribed \cup {s}
    /\ refCount' = refCount + 1
    /\ IF ~connected
       THEN connected' = TRUE /\ SourceSubscribed
       ELSE UNCHANGED <<connected, subscriberCount, cleanup, setupCalls, cleanupCalls>>
    /\ UNCHANGED <<keyvars, dbvars, callvars, histvars>>

\* subscription.unsubscribe(): shareReplay drops the subscriber and, at count
\* zero, unsubscribes from source$
Unsubscribe(s) ==
    /\ s \in subscribed
    /\ subscribed' = subscribed \ {s}
    /\ refCount' = refCount - 1
    /\ IF refCount - 1 = 0 /\ connected
       THEN connected' = FALSE /\ SourceTornDown
       ELSE UNCHANGED <<connected, subscriberCount, cleanup, setupCalls, cleanupCalls>>
    /\ UNCHANGED <<keyvars, dbvars, callvars, histvars>>

InitSubject == DbInit /\ KeyInit /\ SubjectInit

NextSubject ==
    \E s \in 1..MaxSubscribers : Subscribe(s) \/ Unsubscribe(s)

SpecSubject == InitSubject /\ [][NextSubject]_vars

----------------------------------------------------------------------------
(* Properties of between *)

Called == kres # NoCall

BoundOrKey(k) == k = <<>> \/ IsValidKey(k)

\* keys below k in the tree, up to two more levels
DescendantsOf(k) == {k \o s : s \in KeysUpTo(3)}

\* C1: ordering law.  For valid keys a, b with compareKeys(a,b) < 0,
\* between(a,b) returns a key k with compareKeys(a,k) < 0 and
\* compareKeys(k,b) < 0.
C1_OrderingLaw ==
    (Called /\ IsValidKey(ka) /\ IsValidKey(kb) /\ compareKeys(ka, kb) < 0)
        => /\ kres.err = "none"
           /\ compareKeys(ka, kres.key) < 0
           /\ compareKeys(kres.key, kb) < 0

\* C4: key validity.  When each argument is empty or a valid key and a sorts
\* before b, the key returned by between is a valid key.
C4_ResultIsValidKey ==
    (/\ Called
     /\ BoundOrKey(ka) /\ BoundOrKey(kb)
     /\ (ka # <<>> /\ kb # <<>>) => compareKeys(ka, kb) < 0
     /\ kres.err = "none")
        => IsValidKey(kres.key)

\* C7: unbounded insertion.  From adjacent single-byte keys a, b the
\* iteration k0 = between(a,b), k(i+1) = between(a,k(i)) never raises an
\* error in MaxIter rounds and every k(i+1) lies strictly between a and k(i).
C7_RepeatedInsertion ==
    (Called /\ iter > 0)
        => /\ kres.err = "none"
           /\ compareKeys(ka, kres.key) < 0
           /\ compareKeys(kres.key, kb) < 0

\* C9: lower boundary law.  For every non-empty valid key b,
\* between(empty, b) returns a key below b.
C9_LowerBoundary ==
    (Called /\ ka = <<>> /\ IsValidKey(kb))
        => /\ kres.err = "none"
           /\ compareKeys(kres.key, kb) < 0

\* C10: upper boundary law.  For every non-empty valid key a,
\* between(a, empty) returns a valid key above a and above every
\* descendant of a.
C10_UpperBoundary ==
    (Called /\ IsValidKey(ka) /\ kb = <<>>)
        => /\ kres.err = "none"
           /\ IsValidKey(kres.key)
           /\ compareKeys(ka, kres.key) < 0
           /\ \A d \in DescendantsOf(ka) : compareKeys(d, kres.key) < 0

\* C10 witness: between(a, empty) was called on a two-segment key whose
\* final segment ends in 0xFF
C10_Witness ==
    /\ Called /\ kb = <<>> /\ IsValidKey(ka)
    /\ segmentCount(ka) = 2
    /\ ka[Len(ka) - 1] = 255
    /\ kres.err = "none"

----------------------------------------------------------------------------
(* Properties of insertElement *)

Committed == pc = "idle"

RowsOf(m) == {r \in ordering : r.matrix_id = m}

ClosureOf(m, key) == {r \in closure[m] : r.descendant_key = key}

\* C2: closure/key equivalence.  After any sequence of successful insertions,
\* for every pair of keys (X, Y) of a matrix a closure row (X, Y, d) with
\* d > 0 exists exactly when X is a strict byte-prefix of Y ending at a
\* segment terminator, and then d = segmentCount(Y) - segmentCount(X).
C2_ClosureMatchesKeys ==
    Committed =>
        \A m \in matrix : \A x \in KeysOf(m) : \A y \in KeysOf(m) :
            /\ (\E r \in closure[m] : /\ r.ancestor_key = x
                                      /\ r.descendant_key = y
                                      /\ r.depth > 0)
                  <=> IsAncestor(x, y)
            /\ \A r \in closure[m] :
                  (r.ancestor_key = x /\ r.descendant_key = y /\ r.depth > 0)
                      => r.depth = segmentCount(y) - segmentCount(x)

\* C3: atomicity.  Between calls the tables hold exactly what the successful
\* calls wrote: the ordering keys of a matrix are the keys those calls
\* returned, every ordering row has its closure rows (one per level, the
\* self-reference included), every closure row belongs to an ordering row,
\* and a call that rolled back raised its error.
C3_Atomicity ==
    Committed =>
        /\ \A m \in matrix :
              /\ KeysOf(m) = OutlineKeys(outline[m])
              /\ Cardinality(RowsOf(m)) = Len(outline[m])
              /\ \A r \in closure[m] : /\ r.descendant_key \in KeysOf(m)
                                        /\ r.ancestor_key \in KeysOf(m)
              /\ \A i \in 1..Len(outline[m]) :
                    LET rows == ClosureOf(m, outline[m][i].key)
                    IN /\ Cardinality(rows) = outline[m][i].level + 1
                       /\ \E r \in rows : r.ancestor_key = outline[m][i].key
                                          /\ r.depth = 0
        /\ \A r \in ordering : r.matrix_id \in matrix
        /\ (txn # <<>> /\ txn[Len(txn)] = "ROLLBACK")
              => returned.err \notin {"none", "nocall"}

\* C3 witness: a call failed in its last closure write, after the ordering
\* row and the self-reference were written, and has been rolled back
C3_Witness ==
    /\ Committed
    /\ returned.err = "StoreFailure: ancestors"
    /\ txn = <<"BEGIN", "ROLLBACK">>
    /\ ordering # {}

\* C5: tree-order refinement.  Listing a matrix's ordering entries in key
\* order yields the rows in the order the calls asked for (parents before
\* their descendants, subtrees contiguous, siblings in assigned order).
C5_KeyOrderIsOutlineOrder ==
    Committed =>
        \A m \in matrix :
            /\ KeysOf(m) = OutlineKeys(outline[m])
            /\ \A i \in 1..Len(outline[m]) : \A j \in 1..Len(outline[m]) :
                  i < j => compareKeys(outline[m][i].key, outline[m][j].key) < 0

\* the ordering row the call in progress is to add
NewRow == [key |-> orderingKey, matrix_id |-> call.matrixId,
           element_kind |-> call.elementKind, element_id |-> call.elementId]

\* C6: frame of a successful call.  It returns the key of exactly one new
\* ordering row carrying the given matrix id, kind and id, leaves every
\* earlier ordering row as it was, and adds only closure rows whose
\* descendant_key is the new key.
C6_Frame ==
    [][(pc = "commit" /\ pc' = "idle") =>
          /\ returned' = Ok(orderingKey)
          /\ NewRow \notin snapshot.ordering
          /\ \A r \in snapshot.ordering : r.key # orderingKey
          /\ ordering' = snapshot.ordering \cup {NewRow}
          /\ \A m \in matrix :
                /\ snapshot.closure[m] \subseteq closure'[m]
                /\ \A r \in closure'[m] \ snapshot.closure[m] :
                      m = call.matrixId /\ r.descendant_key = orderingKey
      ]_vars

\* C6 witness: a call under a parent is about to commit next to earlier rows
C6_Witness ==
    /\ pc = "commit"
    /\ Has(call.parentKey)
    /\ Cardinality(snapshot.ordering) >= 2
    /\ Cardinality(closure[call.matrixId] \ snapshot.closure[call.matrixId]) >= 2

NoBounds(params) ==
    ~Has(params.parentKey) /\ ~Has(params.prevKey) /\ ~Has(params.nextKey)

\* C8: container independence.  Unless the store itself fails, the first
\* insertion without bounds into an empty matrix succeeds and yields
\* [0x80,0x00], whatever the other matrixes hold.
C8_FirstInsertIndependent ==
    (/\ pc \in {"commit", "catch"}
     /\ NoBounds(call)
     /\ \A r \in snapshot.ordering : r.matrix_id # call.matrixId
     /\ error \notin StoreFailures)
        => (pc = "commit" /\ orderingKey = <<128, 0>>)

----------------------------------------------------------------------------
(* Further properties of between *)

\* C11: extension on exhaustion.  For adjacent single-byte keys a = [x,0x00],
\* b = [x+1,0x00] with 0x01 <= x <= 0xFE, between(a,b) returns the bytes of a
\* before its terminator, then 0x80, then 0x00: a key longer than both that
\* sorts strictly between them.
C11_ExtensionOnExhaustion ==
    (/\ Called /\ iter = 0
     /\ Len(ka) = 2 /\ Len(kb) = 2
     /\ ka[1] \in 1..254 /\ kb[1] = ka[1] + 1
     /\ ka[2] = 0 /\ kb[2] = 0)
        => /\ kres.err = "none"
           /\ kres.key = SubSeq(ka, 1, Len(ka) - 1) \o <<128, 0>>
           /\ Len(kres.key) > Len(ka) /\ Len(kres.key) > Len(kb)
           /\ compareKeys(ka, kres.key) < 0
           /\ compareKeys(kres.key, kb) < 0

\* C11 witness: between was called on the last adjacent pair, [0xFE,0x00] and
\* [0xFF,0x00]
C11_Witness ==
    /\ Called /\ iter = 0
    /\ ka = <<254, 0>> /\ kb = <<255, 0>>
    /\ kres.err = "none"

----------------------------------------------------------------------------
(* Further properties of insertElement *)

\* C12: prefix law.  Every successful insertion that names a parent key P
\* (alone, or with neighbours that are children of P) returns a key C that is
\* longer than P and starts with all the bytes of P, P's final 0x00 included.
C12_PrefixLaw ==
    (pc = "commit" /\ Has(call.parentKey))
        => LET P == Val(call.parentKey)
           IN /\ Len(orderingKey) > Len(P)
              /\ \A i \in 1..Len(P) : orderingKey[i] = P[i]
              /\ P[Len(P)] = 0

\* C12 witness: a call naming a parent and a next sibling, but no previous
\* sibling, is about to return its key
C12_Witness ==
    /\ pc = "commit"
    /\ Has(call.parentKey) /\ Has(call.nextKey) /\ ~Has(call.prevKey)

----------------------------------------------------------------------------
(* Properties of the codec functions *)

\* C13: subtree range law.  For all valid keys P and K: K = P or K is a
\* descendant of P exactly when compareKeys(P,K) <= 0 and
\* compareKeys(K, nextPrefix(P)) < 0.  In particular a sibling whose segment
\* extends P's segment lies outside the range.
C13_SubtreeRange ==
    (op = "nextPrefix" /\ IsValidKey(ka) /\ IsValidKey(kb))
        => /\ kres.err = "none"
           /\ (kb = ka \/ IsAncestor(ka, kb))
                 <=> (compareKeys(ka, kb) <= 0 /\ compareKeys(kb, kres.key) < 0)
           /\ (/\ Len(kb) > Len(ka)
               /\ segmentCount(kb) = segmentCount(ka)
               /\ SubSeq(kb, 1, Len(ka) - 1) = SubSeq(ka, 1, Len(ka) - 1))
                 => ~(compareKeys(ka, kb) <= 0 /\ compareKeys(kb, kres.key) < 0)

\* C13 witness: nextPrefix(P) was computed for a one-segment key P and K is a
\* child of P
C13_Witness ==
    /\ op = "nextPrefix"
    /\ IsValidKey(ka) /\ IsValidKey(kb)
    /\ segmentCount(ka) = 1
    /\ IsAncestor(ka, kb)
    /\ kres.err = "none"

\* where segment s of the list starts in the key (0-based offset)
RECURSIVE SegmentOffset(_, _)
SegmentOffset(segments, s) ==
    IF s = 1 THEN 0
    ELSE SegmentOffset(segments, s - 1) + Len(segments[s - 1]) + 1

HasZero(segments) ==
    \E s \in 1..Len(segments) : \E i \in 1..Len(segments[s]) : segments[s][i] = 0

\* C16: makeKey.  makeKey(segments) fails with InvalidSegment exactly when
\* some segment contains a 0x00 byte; otherwise it returns the concatenation
\* of the segments, each followed by exactly one 0x00.
C16_MakeKey ==
    op = "makeKey"
        => /\ kres.err = "InvalidSegment" <=> HasZero(segs)
           /\ ~HasZero(segs) =>
                 /\ kres.err = "none"
                 /\ Len(kres.key) = SegmentOffset(segs, Len(segs) + 1)
                 /\ \A s \in 1..Len(segs) :
                       LET at == SegmentOffset(segs, s)
                       IN /\ \A i \in 1..Len(segs[s]) :
                                kres.key[at + i] = segs[s][i]
                          /\ kres.key[at + Len(segs[s]) + 1] = 0

\* C16 witness: makeKey was called on two segments, the second of which
\* holds a 0x00 byte
C16_Witness ==
    /\ op = "makeKey"
    /\ Len(segs) = 2
    /\ ~HasZero(<<segs[1]>>) /\ HasZero(<<segs[2]>>)
    /\ kres.err = "InvalidSegment"

\* C17: codec round trip.  parseKey(makeKey(S)) = S for every list S of
\* non-empty segments free of 0x00, and makeKey(parseKey(K)) = K for every
\* valid key K.
C17_RoundTrip ==
    /\ (/\ op = "makeKey;parseKey"
        /\ ~HasZero(segs)
        /\ \A s \in 1..Len(segs) : Len(segs[s]) > 0)
           => segsOut = segs
    /\ (op = "parseKey;makeKey" /\ IsValidKey(ka))
           => kres = Ok(ka)

\* C17 witness: a list of two segments, the second two bytes long, went
\* through makeKey and parseKey
C17_Witness ==
    /\ op = "makeKey;parseKey"
    /\ ~HasZero(segs)
    /\ Len(segs) = 2
    /\ Len(segs[1]) = 1 /\ Len(segs[2]) = 2

\* positions at which a and b both have a byte and the bytes differ
Differing(a, b) == {i \in 1..Min(Len(a), Len(b)) : a[i] # b[i]}

\* C18: compareKeys is a total order on byte sequences with results in
\* {-1, 0, 1}: 0 exactly for identical sequences, antisymmetric
\* (compareKeys(a,b) = -compareKeys(b,a)), transitive, decided by the first
\* differing byte, a proper prefix before each of its extensions.
C18_TotalOrder ==
    op = "compareKeys"
        => /\ cmp \in {-1, 0, 1}
           /\ cmp = 0 <=> ka = kb
           /\ cmp = -compareKeys(kb, ka)
           /\ \A c \in SeqsUpTo(MaxSeqLen) :
                 (cmp <= 0 /\ compareKeys(kb, c) <= 0) => compareKeys(ka, c) <= 0
           /\ Differing(ka, kb) # {} =>
                 LET i == CHOOSE d \in Differing(ka, kb) :
                              \A e \in Differing(ka, kb) : d <= e
                 IN cmp = IF ka[i] < kb[i] THEN -1 ELSE 1
           /\ (Differing(ka, kb) = {} /\ Len(ka) < Len(kb)) => cmp = -1

\* C18 witness: compareKeys was called on a key and one of its extensions
C18_Witness ==
    /\ op = "compareKeys"
    /\ Len(ka) > 0 /\ Len(ka) < Len(kb)
    /\ Differing(ka, kb) = {}
    /\ cmp = -1

----------------------------------------------------------------------------
(* The reference scenario of the test 'should insert child elements with   *)
(* parentKey'                                                              *)

\* the keys of the matrix of the call in progress as of BEGIN TRANSACTION
KeysAtBegin ==
    {r.key : r \in {x \in snapshot.ordering : x.matrix_id = call.matrixId}}

\* the call in progress names exactly these parameters
Names(parentKey, prevKey, nextKey) ==
    /\ call.parentKey = parentKey
    /\ call.prevKey = prevKey
    /\ call.nextKey = nextKey

\* C14: reference scenario.  On an empty matrix, unless the store itself
\* fails: the call with no bounds returns R = [0x80,0x00]; then the call with
\* parent R returns C1 = [0x80,0x00,0x80,0x00]; then the call with parent R
\* and prevKey C1 returns C2 strictly between C1 and nextPrefix(R), the keys
\* in [R, nextPrefix(R)) are R, C1, C2 in this order, and the closure rows
\* with descendant C2 are exactly (C2,C2,0) and (R,C2,1).
C14_ReferenceScenario ==
    LET R == <<128, 0>>
        C1 == <<128, 0, 128, 0>>
        C2 == orderingKey
        m == call.matrixId
        ended == pc \in {"commit", "catch"} /\ error \notin StoreFailures
    IN /\ (ended /\ KeysAtBegin = {} /\ Names(None, None, None))
             => (pc = "commit" /\ orderingKey = R)
       /\ (ended /\ KeysAtBegin = {R} /\ Names(Some(R), None, None))
             => (pc = "commit" /\ orderingKey = C1)
       /\ (ended /\ KeysAtBegin = {R, C1} /\ Names(Some(R), Some(C1), None))
             => /\ pc = "commit"
                /\ compareKeys(C1, C2) < 0
                /\ compareKeys(C2, nextPrefix(R).key) < 0
                /\ {k \in KeysOf(m) : /\ compareKeys(R, k) <= 0
                                       /\ compareKeys(k, nextPrefix(R).key) < 0}
                      = {R, C1, C2}
                /\ ClosureOf(m, C2) =
                      {[ancestor_key |-> C2, descendant_key |-> C2, depth |-> 0],
                       [ancestor_key |-> R, descendant_key |-> C2, depth |-> 1]}

----------------------------------------------------------------------------
(* Errors of between *)

\* C15: InvalidOrdering.  For all valid keys a and b with b an ancestor of a
\* (b is a strict byte-prefix of a ending at a terminator), between(a,b)
\* fails with InvalidOrdering and returns no key.
C15_InvalidOrdering ==
    (Called /\ IsValidKey(ka) /\ IsValidKey(kb) /\ IsAncestor(kb, ka))
        => kres = Err("InvalidOrdering")

----------------------------------------------------------------------------
(* Closure rows written by insertElement *)

\* the level the call in progress places its row at: the number of rows above
\* it on the way to the root
LevelOfCall ==
    IF Has(call.parentKey)
    THEN LET seq == outline[call.matrixId]
         IN seq[IndexOf(seq, Val(call.parentKey))].level + 1
    ELSE 0

\* C19: closure inheritance.  Immediately after the commit of an insertion
\* that produced key K, the closure rows with descendant K are exactly
\* (K,K,0) when no parent was named, and (K,K,0) plus one row (X,K,d+1) for
\* every row (X,P,d) that existed for the parent P when the call began.  A
\* row placed under a chain of n ancestors has exactly n+1 closure rows, with
\* depths 0..n, one per ancestor.
C19_ClosureInheritance ==
    [][(pc = "commit" /\ pc' = "idle") =>
          LET K == orderingKey
              m == call.matrixId
              rows == {r \in closure'[m] : r.descendant_key = K}
              self == [ancestor_key |-> K, descendant_key |-> K, depth |-> 0]
              parentRows ==
                  IF Has(call.parentKey)
                  THEN {r \in snapshot.closure[m] :
                           r.descendant_key = Val(call.parentKey)}
                  ELSE {}
          IN /\ returned' = Ok(K)
             /\ rows = {self} \cup
                       {[ancestor_key |-> r.ancestor_key, descendant_key |-> K,
                         depth |-> r.depth + 1] : r \in parentRows}
             /\ Cardinality(rows) = LevelOfCall + 1
             /\ {r.depth : r \in rows} = 0..LevelOfCall
             /\ Cardinality({r.ancestor_key : r \in rows}) = LevelOfCall + 1
      ]_vars

\* C19 witness: a call placing a row under a parent that has a parent itself
\* is about to commit
C19_Witness ==
    /\ pc = "commit"
    /\ Has(call.parentKey)
    /\ LevelOfCall = 2
    /\ Cardinality(ClosureOf(call.matrixId, orderingKey)) = 3

\* C20: self-reference invariant.  In every committed state, every ordering
\* row K of a matrix has the row (K,K,0) in that matrix's closure table, and
\* the descendant_key of every closure row of the matrix is the key of one
\* of its ordering rows.
C20_SelfReference ==
    Committed =>
        \A m \in matrix :
            /\ \A K \in KeysOf(m) :
                  [ancestor_key |-> K, descendant_key |-> K, depth |-> 0]
                      \in closure[m]
            /\ \A r \in closure[m] : r.descendant_key \in KeysOf(m)

\* C20 witness: between calls, a matrix holds a chain of three rows and the
\* last call was rolled back
C20_Witness ==
    /\ Committed
    /\ \E m \in matrix : \E r \in closure[m] : r.depth = 2
    /\ txn # <<>> /\ txn[Len(txn)] = "ROLLBACK"

----------------------------------------------------------------------------
(* Byte stuffing *)

\* C21: byte-stuffing round trip.  For every byte sequence x, also one with
\* 0x01 bytes next to each other or next to 0x00 bytes,
\* bytesFromSegment(segmentFromBytes(x)) = x, and segmentFromBytes(x) holds
\* no 0x00 byte, so that makeKey accepts it as a segment.
C21_ByteStuffingRoundTrip ==
    op = "segmentFromBytes;bytesFromSegment"
        => /\ bytesOut = ka
           /\ \A i \in 1..Len(kres.key) : kres.key[i] # 0
           /\ makeKey(<<kres.key>>).err = "none"

----------------------------------------------------------------------------
(* Properties of createQuerySubject *)

\* C22: reference counting.  Over any interleaving of subscribe and
\* unsubscribe calls on one query subject, setup is called exactly when the
\* number of subscribers rises from 0 to 1, the cleanup it returned is called
\* exactly once when the number falls back to 0 and never while a subscriber
\* remains; (setup calls - cleanup calls) is 1 while there is a subscriber
\* and 0 otherwise, and a subscription after a full teardown calls setup
\* again.
C22_ReferenceCounting ==
    [][/\ setupCalls' = setupCalls +
              (IF subscribed = {} /\ subscribed' # {} THEN 1 ELSE 0)
       /\ cleanupCalls' = cleanupCalls +
              (IF subscribed # {} /\ subscribed' = {} THEN 1 ELSE 0)
       /\ setupCalls - cleanupCalls = (IF subscribed # {} THEN 1 ELSE 0)
       /\ setupCalls' - cleanupCalls' = (IF subscribed' # {} THEN 1 ELSE 0)
      ]_vars

\* C22 witness: after a full teardown the subject was set up again and has
\* two subscribers
C22_Witness ==
    /\ setupCalls = 2
    /\ cleanupCalls = 1
    /\ Cardinality(subscribed) = 2

----------------------------------------------------------------------------
(* Placement of the new row by insertElement *)

\* the call in progress has run to its COMMIT or into its catch block, and
\* the store itself has not failed
Ended == pc \in {"commit", "catch"} /\ error \notin StoreFailures

Succeeded == pc = "commit"

\* C23: insert-after placement.  A call with only prevKey (with or without
\* parentKey), prevKey being a key of the matrix, succeeds and returns a key
\* k above prevKey, above every existing descendant of prevKey and below
\* every existing key that sorted after prevKey's subtree.
C23_InsertAfter ==
    (Ended /\ Has(call.prevKey) /\ ~Has(call.nextKey))
        => LET prev == Val(call.prevKey)
               k == orderingKey
           IN /\ Succeeded
              /\ compareKeys(prev, k) < 0
              /\ \A d \in KeysAtBegin :
                    IsAncestor(prev, d) => compareKeys(d, k) < 0
              /\ \A e \in KeysAtBegin :
                    (compareKeys(prev, e) < 0 /\ ~IsAncestor(prev, e))
                        => compareKeys(k, e) < 0

\* key is a direct child of parent: parent's segments and exactly one more
IsChildOf(key, parent) ==
    IsAncestor(parent, key) /\ segmentCount(key) = segmentCount(parent) + 1

\* the keys that existed at BEGIN inside (prev, nextPrefix(parent))
AfterInParent(prev, parent) ==
    {e \in KeysAtBegin : /\ compareKeys(e, prev) > 0
                         /\ compareKeys(e, nextPrefix(parent).key) < 0}

\* C24: open upper bound.  When a call names parent P and only prevKey, and
\* the smallest existing key above prevKey inside P's subtree range is not a
\* direct child of P, the call succeeds and the new key is a direct child of
\* P that sorts after every existing direct child of P and after all of
\* their descendants.
C24_OpenUpperBound ==
    (/\ Ended
     /\ Has(call.parentKey) /\ Has(call.prevKey) /\ ~Has(call.nextKey)
     /\ AfterInParent(Val(call.prevKey), Val(call.parentKey)) # {}
     /\ ~IsChildOf(MinKey(AfterInParent(Val(call.prevKey), Val(call.parentKey))),
                   Val(call.parentKey)))
        => /\ Succeeded
           /\ IsChildOf(orderingKey, Val(call.parentKey))
           /\ \A d \in KeysAtBegin :
                 IsAncestor(Val(call.parentKey), d) => compareKeys(d, orderingKey) < 0

\* C25: insert-before placement.  A call with only nextKey (with or without
\* parentKey), nextKey being a key of the matrix, succeeds and returns a key
\* k below nextKey and above every existing key that is below nextKey (inside
\* P's subtree when parentKey P is named, and then k is a child of P).
C25_InsertBefore ==
    (Ended /\ Has(call.nextKey) /\ ~Has(call.prevKey))
        => LET next == Val(call.nextKey)
               k == orderingKey
           IN /\ Succeeded
              /\ compareKeys(k, next) < 0
              /\ \A e \in KeysAtBegin :
                    (/\ compareKeys(e, next) < 0
                     /\ Has(call.parentKey) => IsAncestor(Val(call.parentKey), e))
                        => compareKeys(e, k) < 0
              /\ Has(call.parentKey) => IsChildOf(k, Val(call.parentKey))

\* C26: first-child placement.  A call with only parentKey P, P being a key
\* of the matrix, succeeds and returns a direct child of P that sorts before
\* every existing descendant of P; when P has no descendants the key is P's
\* segments followed by the single segment [0x80].  This holds for every
\* call of any number of repeated first-child insertions under the same P.
C26_FirstChild ==
    (Ended /\ Has(call.parentKey) /\ ~Has(call.prevKey) /\ ~Has(call.nextKey))
        => LET P == Val(call.parentKey)
               k == orderingKey
               descendants == {d \in KeysAtBegin : IsAncestor(P, d)}
           IN /\ Succeeded
              /\ IsChildOf(k, P)
              /\ \A d \in descendants : compareKeys(k, d) < 0
              /\ descendants = {} => k = P \o <<128, 0>>

\* C27: root-level append.  A call without parentKey, prevKey and nextKey
\* succeeds and returns a root-level key (exactly one segment) that sorts
\* after every existing key of the matrix, whatever the depth of the
\* matrix's greatest key; on an empty matrix it returns [0x80,0x00].
C27_RootAppend ==
    (Ended /\ NoBounds(call))
        => /\ Succeeded
           /\ segmentCount(orderingKey) = 1
           /\ \A e \in KeysAtBegin : compareKeys(e, orderingKey) < 0
           /\ KeysAtBegin = {} => orderingKey = <<128, 0>>

----------------------------------------------------------------------------
(* between on siblings *)

\* the bytes of k up to the terminator before its last segment
ParentPrefix(k) ==
    LET ends == {i \in 1..(Len(k) - 1) : k[i] = 0}
    IN IF ends = {} THEN <<>>
       ELSE SubSeq(k, 1, CHOOSE i \in ends : \A j \in ends : j <= i)

\* C28: between of siblings yields a sibling.  For valid keys a < b with the
\* same parent prefix and the same number of segments, between(a,b) returns
\* a key with that parent prefix and that number of segments; for example
\* between([0x80,0x00], [0x80,0x80,0x00]) = [0x80,0x40,0x00].
C28_SiblingBetweenSiblings ==
    (/\ Called
     /\ IsValidKey(ka) /\ IsValidKey(kb)
     /\ compareKeys(ka, kb) < 0
     /\ segmentCount(ka) = segmentCount(kb)
     /\ ParentPrefix(ka) = ParentPrefix(kb))
        => /\ kres.err = "none"
           /\ IsValidKey(kres.key)
           /\ ParentPrefix(kres.key) = ParentPrefix(ka)
           /\ segmentCount(kres.key) = segmentCount(ka)
           /\ (ka = <<128, 0>> /\ kb = <<128, 128, 0>>)
                 => kres.key = <<128, 64, 0>>

----------------------------------------------------------------------------
(* Validity of the stored keys, and the end of every call *)

\* C29: stored-key validity.  In every committed state every key of the
\* ordering table is a valid key (non-empty, final byte 0x00, no empty
\* segment); a call whose computed key is empty or does not end in 0x00 is
\* rejected by the store and rolled back, never committed.
C29_StoredKeysValid ==
    [][/\ Committed => \A r \in ordering : IsValidKey(r.key)
       /\ pc' = "idle" => \A r \in ordering' : IsValidKey(r.key)
       /\ (pc = "insertOrdering" /\ ~KeyCheck(orderingKey))
             => (pc' = "catch" /\ error' # "none" /\ ordering' = ordering)
       /\ (pc = "catch" /\ ~KeyCheck(orderingKey))
             => /\ ordering' = snapshot.ordering
                /\ closure' = snapshot.closure
                /\ returned'.err = error
                /\ txn' = <<"BEGIN", "ROLLBACK">>
       /\ pc = "commit" => IsValidKey(orderingKey)
      ]_vars

\* C29 witness: the store has rejected a computed key that does not end in
\* 0x00, and the call is in its catch block
C29_Witness ==
    /\ pc = "catch"
    /\ error = "Check"
    /\ Len(orderingKey) > 0
    /\ orderingKey[Len(orderingKey)] # 0

CallEnded == pc = "idle" /\ txn # <<>>

====
